---- MODULE Spec2Model ----
(***************************************************************************)
(* Model of reading-digest (src/reading_digest.py): the token budget       *)
(* tracker, the keyword passage extractor, the sheet-backed record store   *)
(* and the process_document / estimate_task orchestration.                 *)
(*                                                                         *)
(* Strings are sequences of characters; a character is a TLA+ string       *)
(* naming one code point.  Positions are 0-based as in Python: the slice   *)
(* s[a:b] is Slice(s, a, b).                                               *)
(***************************************************************************)
EXTENDS Integers, Sequences, FiniteSets, TLC

VARIABLES
  max_budget,         \* TokenMonitor.max_budget
  warning_threshold,  \* TokenMonitor.warning_threshold, a fraction <<num, den>>
  tokens_used,        \* TokenMonitor.tokens_used
  encoder,            \* TRUE iff TokenMonitor.encoder is not None
  costSum,            \* history: sum of the costs passed to add_usage
  last,               \* outcome of the latest TokenMonitor call
  sheet,              \* rows of the spreadsheet, row 1 first
  webhooks,           \* DiscordAlerter: which webhook URLs are configured
  pc,                 \* position of the current process_document call
  run,                \* locals of the current process_document call
  sent,               \* messages handed to DiscordAlerter._send in this call
  delivery,           \* what became of the messages sent in the latest step
  nruns,              \* number of calls started
  prev,               \* history: the previous finished process_document call
  est,                \* return value of the latest estimate_task call
  ex                  \* state of a ContentExtractor.extract call

vars == <<max_budget, warning_threshold, tokens_used, encoder, costSum, last,
          sheet, webhooks, pc, run, sent, delivery, nruns, prev, est, ex>>

trackerVars == <<max_budget, warning_threshold, tokens_used, encoder, costSum, last>>

runVars == <<sheet, webhooks, pc, run, sent, delivery, nruns, prev, est>>

(***************************************************************************)
(* Bounds of the model.                                                    *)
(***************************************************************************)
MaxTextLen == 4
MaxRuns == 2
MaxCalls == 2
MaxCost == 3
MaxUsed == 8

(***************************************************************************)
(* Characters and Python string primitives.                                *)
(***************************************************************************)
Max2(a, b) == IF a >= b THEN a ELSE b

Min2(a, b) == IF a <= b THEN a ELSE b

\* Code points that str.strip() and the regex class \s treat as whitespace.
Whitespace == {" ", "\n", "\t"}

\* The three full-width marks of the source are named, one code point each.
SentenceMarks == <<"CJK_STOP", "CJK_EXCL", "CJK_QUES", ".", "!", "?">>

MarkSet == {SentenceMarks[i] : i \in 1..Len(SentenceMarks)}

\* str.lower() on one code point; U+0130 lowers to two code points.
LowerChar(c) ==
  CASE c = "A" -> <<"a">>
    [] c = "B" -> <<"b">>
    [] c = "C" -> <<"c">>
    [] c = "T" -> <<"t">>
    [] c = "I_DOT" -> <<"i", "COMB_DOT">>
    [] OTHER -> <<c>>

\* str.lower(): in place when every code point lowers to one code point,
\* by halves otherwise.
RECURSIVE Lower(_)
Lower(s) ==
  IF \A i \in 1..Len(s) : Len(LowerChar(s[i])) = 1
  THEN [i \in 1..Len(s) |-> LowerChar(s[i])[1]]
  ELSE IF Len(s) = 1 THEN LowerChar(s[1])
  ELSE LET h == Len(s) \div 2
       IN  Lower(SubSeq(s, 1, h)) \o Lower(SubSeq(s, h + 1, Len(s)))

\* s[a:b] for 0 <= a, with Python's clipping of b.
Slice(s, a, b) == SubSeq(s, a + 1, Min2(b, Len(s)))

\* s.find(sub, start): lowest index >= start where sub occurs, else -1.
Find(s, sub, start) ==
  LET hit(i) == \A k \in 1..Len(sub) : s[i + k] = sub[k]
      range == start..(Len(s) - Len(sub))
  IN  IF \E i \in range : hit(i)
      THEN CHOOSE i \in range : hit(i) /\ \A j \in start..(i - 1) : ~hit(j)
      ELSE -1

\* str.strip(): from the first to the last non-whitespace code point.
Strip(s) ==
  IF \A i \in 1..Len(s) : s[i] \in Whitespace THEN <<>>
  ELSE LET first == CHOOSE i \in 1..Len(s) :
                      s[i] \notin Whitespace /\ \A j \in 1..(i - 1) : s[j] \in Whitespace
           final == CHOOSE i \in 1..Len(s) :
                      s[i] \notin Whitespace /\ \A j \in (i + 1)..Len(s) : s[j] \in Whitespace
       IN  SubSeq(s, first, final)

\* re.sub(r'\s+', ' ', s): every maximal whitespace run becomes one space.
\* Computed by halves; a run that spans the cut is joined.
RECURSIVE CollapseWs(_)
CollapseWs(s) ==
  IF \A i \in 1..Len(s) : s[i] \notin Whitespace THEN s
  ELSE IF Len(s) = 1 THEN <<" ">>
  ELSE LET h == Len(s) \div 2
           l == CollapseWs(SubSeq(s, 1, h))
           r == CollapseWs(SubSeq(s, h + 1, Len(s)))
       IN  IF s[h] \in Whitespace /\ s[h + 1] \in Whitespace
           THEN l \o Tail(r)
           ELSE l \o r

(***************************************************************************)
(* ContentExtractor                                                        *)
(***************************************************************************)
\* Span of the sentence-boundary search in _clean_content.
BoundarySpan == 50

\* Default context half-width of ContentExtractor.
DefaultContextChars == 200

\* The for/break loop over the separators, from separator number i on.
RECURSIVE TrimAtMark(_, _)
TrimAtMark(content, i) ==
  IF i > Len(SentenceMarks) THEN content
  ELSE LET idx == Find(content, <<SentenceMarks[i]>>, 0)
       IN  IF idx # -1 /\ idx < BoundarySpan
           THEN Strip(Slice(content, idx + 1, Len(content)))
           ELSE TrimAtMark(content, i + 1)

clean_content(content) ==
  LET c == Strip(CollapseWs(content))
  IN  IF c # <<>> /\ c[1] \in MarkSet THEN c ELSE TrimAtMark(c, 1)

\* Code of a code point, as fed to the digest.
CharCode(c) ==
  CASE c = " " -> 32
    [] c = "\n" -> 10
    [] c = "\t" -> 9
    [] c = "." -> 46
    [] c = "!" -> 33
    [] c = "?" -> 63
    [] c = "a" -> 97
    [] c = "b" -> 98
    [] c = "c" -> 99
    [] c = "A" -> 65
    [] c = "B" -> 66
    [] c = "C" -> 67
    [] c = "T" -> 84
    [] c = "h" -> 104
    [] c = "e" -> 101
    [] c = "t" -> 116
    [] c = "s" -> 115
    [] c = "r" -> 114
    [] c = "n" -> 110
    [] c = "i" -> 105
    [] c = "I_DOT" -> 304
    [] c = "COMB_DOT" -> 775
    [] OTHER -> 1

\* Size of the digest's range: the hex digest is cut to a fixed width, so
\* the fingerprint is a deterministic, non-injective function of the content.
HashSpace == 4093

\* Sum of position-weighted codes of content[lo..hi], by halves.
RECURSIVE CodeSum(_, _, _)
CodeSum(content, lo, hi) ==
  IF lo > hi THEN 0
  ELSE IF lo = hi THEN (((lo % 61) + 1) * CharCode(content[lo])) % HashSpace
  ELSE LET mid == (lo + hi) \div 2
       IN  (CodeSum(content, lo, mid) + CodeSum(content, mid + 1, hi)) % HashSpace

\* hashlib.md5(content.encode()).hexdigest()[:12], abstracted to a
\* deterministic digest over a finite range.
content_hash(content) == (7 + 13 * Len(content) + CodeSum(content, 1, Len(content))) % HashSpace

\* ContentExtractor.__init__: keywords are lower-cased once.
InitKeywords(keywords) == [i \in 1..Len(keywords) |-> Lower(keywords[i])]

\* State of one extract call at the head of the while loop.
\* A scan that resumes after the end of the match (occurrences that overlap
\* the processed one are skipped).
NextStartNonOverlap(p, keyword) == p + Max2(1, Len(keyword))

\* A scan that resumes at the match itself.
NextStartSame(p, keyword) == p

\* start = pos + 1: the search for the same keyword resumes one character
\* after the START of the match just processed.
NextStart(p, keyword) == p + 1

ExtractStart(calls) ==
  [kwi |-> 1, start |-> 0, results |-> <<>>, seen_hashes |-> {},
   pos |-> -1, ctx_start |-> 0, ctx_end |-> 0, window |-> <<>>, content |-> <<>>,
   matched |-> FALSE, emitted |-> FALSE, done |-> FALSE, calls |-> calls]

ExtractIterNoDedup(st, text, keywords, W) ==
  IF st.kwi > Len(keywords)
  THEN [st EXCEPT !.done = TRUE, !.matched = FALSE, !.emitted = FALSE]
  ELSE
    LET keyword == keywords[st.kwi]
        text_lower == Lower(text)
        p == Find(text_lower, keyword, st.start)
    IN  IF p = -1
        THEN [st EXCEPT !.kwi = st.kwi + 1, !.start = 0, !.pos = -1,
                        !.matched = FALSE, !.emitted = FALSE]
        ELSE
          LET cs == Max2(0, p - W)
              ce == Min2(Len(text), p + Len(keyword) + W)
              window == Strip(Slice(text, cs, ce))
              content == clean_content(window)
              h == content_hash(content)
          IN  [st EXCEPT !.pos = p, !.ctx_start = cs, !.ctx_end = ce,
                         !.window = window, !.content = content,
                         !.matched = TRUE, !.emitted = TRUE,
                         !.seen_hashes = st.seen_hashes \cup {h},
                         !.results = Append(st.results,
                                            [Tags |-> keyword, Content |-> content,
                                             UniqueID |-> h]),
                         !.start = NextStart(p, keyword)]

\* One iteration of the while loop of extract (or the move to the next
\* keyword when find returns -1, or the return when the keywords are used up).
ExtractIter(st, text, keywords, W) ==
  IF st.kwi > Len(keywords)
  THEN [st EXCEPT !.done = TRUE, !.matched = FALSE, !.emitted = FALSE]
  ELSE
    LET keyword == keywords[st.kwi]
        text_lower == Lower(text)
        p == Find(text_lower, keyword, st.start)
    IN  IF p = -1
        THEN [st EXCEPT !.kwi = st.kwi + 1, !.start = 0, !.pos = -1,
                        !.matched = FALSE, !.emitted = FALSE]
        ELSE
          LET cs == Max2(0, p - W)
              ce == Min2(Len(text), p + Len(keyword) + W)
              window == Strip(Slice(text, cs, ce))
              content == clean_content(window)
              h == content_hash(content)
              fresh == h \notin st.seen_hashes
          IN  [st EXCEPT !.pos = p, !.ctx_start = cs, !.ctx_end = ce,
                         !.window = window, !.content = content,
                         !.matched = TRUE, !.emitted = fresh,
                         !.seen_hashes = st.seen_hashes \cup {h},
                         !.results = IF fresh
                                     THEN Append(st.results,
                                            [Tags |-> keyword, Content |-> content,
                                             UniqueID |-> h])
                                     ELSE st.results,
                         !.start = NextStart(p, keyword)]

RECURSIVE ExtractRun(_, _, _, _)
ExtractRun(st, text, keywords, W) ==
  IF st.done THEN st.results
  ELSE ExtractRun(ExtractIter(st, text, keywords, W), text, keywords, W)

\* ContentExtractor(keywords, W).extract(text)
extract(text, keywords, W) == ExtractRun(ExtractStart(1), text, InitKeywords(keywords), W)

(***************************************************************************)
(* TokenMonitor                                                            *)
(***************************************************************************)
\* A message is kept as the values its f-string is built from.
EmptyMsg == [kind |-> "empty"]

\* a / b >= n / d for integers a, b # 0 and a fraction with d > 0.
RatioGe(a, b, n, d) == IF b > 0 THEN a * d >= n * b ELSE a * d <= n * b

\* len(self.encoder.encode(text)): the tokenizer is a library; its count is
\* abstracted to one token per code point.
EncodedLen(text) == Len(text)

estimate_tokens(text, enc) == IF enc THEN EncodedLen(text) ELSE Len(text) \div 2

add_usage_precheck(used, budget, threshold, tokens) ==
  LET total == used + tokens
  IN  IF budget = 0
      THEN [tokens_used |-> used, raised |-> TRUE, ok |-> FALSE, message |-> EmptyMsg]
      ELSE IF RatioGe(total, budget, 1, 1)
      THEN [tokens_used |-> used, raised |-> FALSE, ok |-> FALSE,
            message |-> [kind |-> "exceeded", used |-> total, budget |-> budget]]
      ELSE IF RatioGe(total, budget, threshold[1], threshold[2])
      THEN [tokens_used |-> total, raised |-> FALSE, ok |-> TRUE,
            message |-> [kind |-> "warning", used |-> total, budget |-> budget]]
      ELSE [tokens_used |-> total, raised |-> FALSE, ok |-> TRUE, message |-> EmptyMsg]

add_usage_strict(used, budget, threshold, tokens) ==
  LET total == used + tokens
  IN  IF budget = 0
      THEN [tokens_used |-> total, raised |-> TRUE, ok |-> FALSE, message |-> EmptyMsg]
      ELSE IF ~RatioGe(1, 1, total, budget)
      THEN [tokens_used |-> total, raised |-> FALSE, ok |-> FALSE,
            message |-> [kind |-> "exceeded", used |-> total, budget |-> budget]]
      ELSE IF RatioGe(total, budget, threshold[1], threshold[2])
      THEN [tokens_used |-> total, raised |-> FALSE, ok |-> TRUE,
            message |-> [kind |-> "warning", used |-> total, budget |-> budget]]
      ELSE [tokens_used |-> total, raised |-> FALSE, ok |-> TRUE, message |-> EmptyMsg]

\* A tracker that classifies the cost of the call alone, not the running total.
add_usage_per_call(used, budget, threshold, tokens) ==
  LET total == used + tokens
  IN  IF budget = 0
      THEN [tokens_used |-> total, raised |-> TRUE, ok |-> FALSE, message |-> EmptyMsg]
      ELSE IF RatioGe(tokens, budget, 1, 1)
      THEN [tokens_used |-> total, raised |-> FALSE, ok |-> FALSE,
            message |-> [kind |-> "exceeded", used |-> total, budget |-> budget]]
      ELSE IF RatioGe(tokens, budget, threshold[1], threshold[2])
      THEN [tokens_used |-> total, raised |-> FALSE, ok |-> TRUE,
            message |-> [kind |-> "warning", used |-> total, budget |-> budget]]
      ELSE [tokens_used |-> total, raised |-> FALSE, ok |-> TRUE, message |-> EmptyMsg]

\* TokenMonitor.add_usage: the counter is increased first; the division
\* raises ZeroDivisionError when max_budget is 0.
add_usage(used, budget, threshold, tokens) ==
  LET total == used + tokens
  IN  IF budget = 0
      THEN [tokens_used |-> total, raised |-> TRUE, ok |-> FALSE, message |-> EmptyMsg]
      ELSE IF RatioGe(total, budget, 1, 1)
      THEN [tokens_used |-> total, raised |-> FALSE, ok |-> FALSE,
            message |-> [kind |-> "exceeded", used |-> total, budget |-> budget]]
      ELSE IF RatioGe(total, budget, threshold[1], threshold[2])
      THEN [tokens_used |-> total, raised |-> FALSE, ok |-> TRUE,
            message |-> [kind |-> "warning", used |-> total, budget |-> budget]]
      ELSE [tokens_used |-> total, raised |-> FALSE, ok |-> TRUE, message |-> EmptyMsg]

\* TokenMonitor.get_status
get_status(used, budget) ==
  IF budget = 0
  THEN [raised |-> TRUE, message |-> EmptyMsg]
  ELSE [raised |-> FALSE,
        message |-> [kind |-> "status", used |-> used, budget |-> budget]]

NoCall == [op |-> "none", cost |-> 0, raised |-> FALSE, ok |-> TRUE, message |-> EmptyMsg]

\* Values of max_token_budget and token_warning_threshold in config.json.
TrackerBudgets == {-2, 0, 1, 2, 5}

WarningThresholds == {<<4, 5>>, <<1, 2>>}

(***************************************************************************)
(* GoogleSheetsClient: the sheet is the sequence of its rows.  A row keeps *)
(* the cell the program reads back (column H, the Unique ID) and the tags  *)
(* cell; the other cells are never read by the program.                    *)
(***************************************************************************)
\* Column H of the header row holds the header's name, which is no digest.
HeaderID == -1

\* self.headers, written to A1:I1.
HeaderRow == [Tags |-> <<"Tags">>, UniqueID |-> HeaderID]

\* [row.get(h, '') for h in headers]
RowOf(entry) == [Tags |-> entry.Tags, UniqueID |-> entry.UniqueID]

\* setup_headers: row 1 is overwritten unless it equals the headers; an
\* HttpError from the get or the update is caught and leaves the sheet.
setup_headers(sh, httpError) ==
  IF httpError THEN sh
  ELSE IF sh = <<>> THEN <<HeaderRow>>
  ELSE IF sh[1] # HeaderRow THEN [sh EXCEPT ![1] = HeaderRow]
  ELSE sh

\* A lookup that answers from the sheet also when the request has failed.
get_existing_ids_cached(sh, httpError) == {sh[i].UniqueID : i \in 2..Len(sh)}

\* get_existing_ids: column H below row 1; the empty set on HttpError.
get_existing_ids(sh, httpError) ==
  IF httpError THEN {} ELSE {sh[i].UniqueID : i \in 2..Len(sh)}

\* The rows append_rows passes on, in order.
RECURSIVE NewRows(_, _)
NewRows(rows, existing_ids) ==
  IF rows = <<>> THEN <<>>
  ELSE IF Head(rows).UniqueID \notin existing_ids
       THEN <<RowOf(Head(rows))>> \o NewRows(Tail(rows), existing_ids)
       ELSE NewRows(Tail(rows), existing_ids)

\* append_rows: returns the sheet after the call and the count it reports.
append_rows(sh, rows, lookupError, appendError) ==
  LET new_rows == NewRows(rows, get_existing_ids(sh, lookupError))
  IN  IF new_rows = <<>> THEN [sheet |-> sh, added |-> 0, attempted |-> FALSE]
      ELSE IF appendError THEN [sheet |-> sh, added |-> 0, attempted |-> TRUE]
      ELSE [sheet |-> sh \o new_rows, added |-> Len(new_rows), attempted |-> TRUE]

(***************************************************************************)
(* Documents and keyword lists given to the orchestrator.                  *)
(***************************************************************************)
Cat == <<"c", "a", "t">>

Filler(n) == [i \in 1..n |-> "x"]

\* Documents by path.  1: a format DocumentParser.parse rejects; 2: an empty
\* file; 3: a short text; 4: a text longer than two context windows.
Docs == 1..4

DocParses(d) == d # 1

DocText(d) ==
  CASE d = 2 -> <<>>
    [] d = 3 -> <<"a", ".", " ", "b">>
    [] d = 4 -> Cat \o Filler(205) \o Cat
    [] OTHER -> <<>>

KeywordLists == {<<Cat>>, <<<<"B">>, Cat>>}

ShortEntry == [Tags |-> <<"b">>, Content |-> <<"b">>, UniqueID |-> content_hash(<<"b">>)]

InitialSheets == {<<>>, <<HeaderRow>>, <<HeaderRow, RowOf(ShortEntry)>>}

RunBudgets == {0, 4, 250}

(***************************************************************************)
(* DiscordAlerter                                                          *)
(***************************************************************************)
\* _send: without a webhook URL the message is printed; otherwise it is
\* posted, and a failed post is caught and printed.
SendOutcomes(hooks, channel) ==
  IF hooks[channel] THEN {"delivered", "failed"} ELSE {"printed"}

\* An alerter whose failed post reaches the caller as an exception.
AfterSendRaise(o, next) == IF o = "failed" THEN "CRASHED" ELSE next

\* _send catches every exception of the post and prints it: whatever the
\* outcome o of the send, the caller continues at next.
AfterSend(o, next) == next

Sent(channel, message) == [channel |-> channel, message |-> message]


(***************************************************************************)
(* Initial values shared by the specifications.                            *)
(***************************************************************************)
Result0 ==
  [success |-> FALSE, entries_found |-> 0, entries_added |-> 0, tokens_used |-> 0,
   message |-> EmptyMsg]

\* No process_document call is running.  used0 and sheet0 remember the
\* counter and the sheet at the start of the call; permitted, extracted,
\* storeCalls and the Failed flags record what the call has done so far.
IdleRun ==
  [doc |-> 0, keywords |-> <<>>, tokens |-> 0, entries |-> <<>>, result |-> Result0,
   permitted |-> "n/a", used0 |-> 0, sheet0 |-> <<>>, extracted |-> FALSE,
   storeCalls |-> 0, lookupFailed |-> FALSE, appendFailed |-> FALSE]

NoPrev == [doc |-> 0, keywords |-> <<>>, lookupFailed |-> FALSE, appendFailed |-> FALSE]

NoEst == [tokens |-> 0, message |-> EmptyMsg]

ExIdle == [text |-> <<>>, keywords |-> <<>>, W |-> 0, st |-> ExtractStart(0), first |-> <<>>]

InitRunIdle ==
  /\ pc = "idle"
  /\ run = IdleRun
  /\ sent = <<>>
  /\ delivery = <<>>
  /\ nruns = 0
  /\ prev = NoPrev
  /\ est = NoEst

InitTrackerAt(budgets, thresholds) ==
  /\ max_budget \in budgets
  /\ warning_threshold \in thresholds
  /\ tokens_used = 0
  /\ encoder \in BOOLEAN
  /\ costSum = 0
  /\ last = NoCall

(***************************************************************************)
(* ReadingDigest.process_document, one action per step of the pipeline.    *)
(***************************************************************************)
Terminal == {"REPORTED", "ABORTED", "CRASHED"}

\* Step 1: the result dict is created and the start notification is sent.
StartRun(d, kws, o) ==
  /\ pc = "idle"
  /\ nruns < MaxRuns
  /\ pc' = AfterSend(o, "START")
  /\ nruns' = nruns + 1
  /\ run' = [IdleRun EXCEPT !.doc = d, !.keywords = kws,
                            !.used0 = tokens_used, !.sheet0 = sheet]
  /\ sent' = <<Sent("results", [kind |-> "start", doc |-> d, keywords |-> kws])>>
  /\ delivery' = <<o>>
  /\ est' = NoEst
  /\ UNCHANGED <<trackerVars, sheet, webhooks, prev, ex>>

ParseNoReturn(o) ==
  /\ pc = "START"
  /\ IF DocParses(run.doc)
     THEN LET tokens == estimate_tokens(DocText(run.doc), encoder)
          IN  /\ run' = [run EXCEPT !.tokens = tokens, !.result.tokens_used = tokens]
              /\ sent' = sent
              /\ delivery' = <<>>
     ELSE LET msg == [kind |-> "parse_failed", doc |-> run.doc]
          IN  /\ run' = [run EXCEPT !.result.message = msg]
              /\ sent' = Append(sent, Sent("results", msg))
              /\ delivery' = <<o>>
  /\ pc' = "PARSED"
  /\ UNCHANGED <<trackerVars, sheet, webhooks, nruns, prev, est, ex>>

\* Step 2: parse and estimate; any exception ends the call with a message.
Parse(o) ==
  /\ pc = "START"
  /\ IF DocParses(run.doc)
     THEN LET tokens == estimate_tokens(DocText(run.doc), encoder)
          IN  /\ pc' = "PARSED"
              /\ run' = [run EXCEPT !.tokens = tokens, !.result.tokens_used = tokens]
              /\ sent' = sent
              /\ delivery' = <<>>
     ELSE LET msg == [kind |-> "parse_failed", doc |-> run.doc]
          IN  /\ pc' = AfterSend(o, "ABORTED")
              /\ run' = [run EXCEPT !.result.message = msg]
              /\ sent' = Append(sent, Sent("results", msg))
              /\ delivery' = <<o>>
  /\ UNCHANGED <<trackerVars, sheet, webhooks, nruns, prev, est, ex>>

BudgetGateOpen(ok) == "BUDGET_CHECKED"

\* Where process_document goes after add_usage returned ok.
BudgetGate(ok) == IF ok THEN "BUDGET_CHECKED" ELSE "ABORTED"

\* Step 3: the cost is charged, a non-empty message is forwarded, and the
\* call returns when the budget is exceeded.  An exception of add_usage is
\* not caught.
BudgetCheck(o) ==
  /\ pc = "PARSED"
  /\ LET r == add_usage(tokens_used, max_budget, warning_threshold, run.tokens)
     IN  /\ tokens_used' = r.tokens_used
         /\ costSum' = costSum + run.tokens
         /\ last' = [op |-> "add_usage", cost |-> run.tokens, raised |-> r.raised,
                     ok |-> r.ok, message |-> r.message]
         /\ IF r.raised
            THEN /\ pc' = "CRASHED"
                 /\ delivery' = <<>>
                 /\ UNCHANGED <<run, sent>>
            ELSE /\ pc' = IF r.message # EmptyMsg
                             THEN AfterSend(o, BudgetGate(r.ok))
                             ELSE BudgetGate(r.ok)
                 /\ sent' = IF r.message # EmptyMsg
                            THEN Append(sent, Sent("token", r.message))
                            ELSE sent
                 /\ delivery' = IF r.message # EmptyMsg THEN <<o>> ELSE <<>>
                 /\ run' = [run EXCEPT !.permitted = IF r.ok THEN "yes" ELSE "no",
                                       !.result.message =
                                          IF r.ok THEN @ ELSE r.message]
  /\ UNCHANGED <<max_budget, warning_threshold, encoder, sheet, webhooks, nruns,
                 prev, est, ex>>

\* Step 4: extraction with the default context width.
Extract(o) ==
  /\ pc = "BUDGET_CHECKED"
  /\ LET entries == extract(DocText(run.doc), run.keywords, DefaultContextChars)
     IN  /\ run' = [run EXCEPT !.entries = entries, !.extracted = TRUE,
                               !.result.entries_found = Len(entries)]
         /\ sent' = Append(sent, Sent("results",
                                      [kind |-> "found", found |-> Len(entries)]))
  /\ delivery' = <<o>>
  /\ pc' = AfterSend(o, "EXTRACTED")
  /\ UNCHANGED <<trackerVars, sheet, webhooks, nruns, prev, est, ex>>

\* Step 5: setup_headers, then append_rows; each remote call may fail.
Write(hdrError, lookupError, appendError) ==
  /\ pc = "EXTRACTED"
  /\ LET r == append_rows(setup_headers(sheet, hdrError), run.entries,
                          lookupError, appendError)
     IN  /\ sheet' = r.sheet
         /\ run' = [run EXCEPT !.result.entries_added = r.added,
                               !.storeCalls = 2,
                               !.lookupFailed = lookupError,
                               !.appendFailed = r.attempted /\ appendError]
  /\ pc' = "WRITTEN"
  /\ delivery' = <<>>
  /\ UNCHANGED <<trackerVars, webhooks, sent, nruns, prev, est, ex>>

\* The summary of step 6.
SummaryMessage(found, added, status) ==
  [kind |-> "complete", found |-> found, added |-> added, skipped |-> found - added,
   status |-> status]

\* Step 6: the summary goes to the results channel, the status to the token
\* channel, and the result is returned.
Report(o1, o2) ==
  /\ pc = "WRITTEN"
  /\ LET status == get_status(tokens_used, max_budget)
         msg == SummaryMessage(Len(run.entries), run.result.entries_added,
                               status.message)
     IN  /\ run' = [run EXCEPT !.result.success = TRUE, !.result.message = msg]
         /\ sent' = sent \o <<Sent("results", msg), Sent("token", status.message)>>
         /\ last' = [op |-> "get_status", cost |-> 0, raised |-> status.raised,
                     ok |-> TRUE, message |-> status.message]
  /\ delivery' = <<o1, o2>>
  /\ pc' = AfterSend(o1, AfterSend(o2, "REPORTED"))
  /\ UNCHANGED <<max_budget, warning_threshold, tokens_used, encoder, costSum,
                 sheet, webhooks, nruns, prev, est, ex>>

\* The call returns (or its exception reaches the caller).
Return ==
  /\ pc \in Terminal
  /\ prev' = [doc |-> run.doc, keywords |-> run.keywords,
              lookupFailed |-> run.lookupFailed, appendFailed |-> run.appendFailed]
  /\ pc' = "idle"
  /\ run' = IdleRun
  /\ sent' = <<>>
  /\ delivery' = <<>>
  /\ UNCHANGED <<trackerVars, sheet, webhooks, nruns, est, ex>>

\* An estimate that also prepares the sheet for the run to come.
EstimateTaskSetsUp(d, o) ==
  /\ pc = "idle"
  /\ IF DocParses(d)
     THEN LET tokens == estimate_tokens(DocText(d), encoder)
              msg == [kind |-> "estimate", doc |-> d, tokens |-> tokens,
                      budget |-> max_budget, within |-> tokens < max_budget]
          IN  /\ est' = [tokens |-> tokens, message |-> msg]
              /\ sent' = <<Sent("token", msg)>>
              /\ delivery' = <<o>>
     ELSE /\ est' = [tokens |-> 0, message |-> [kind |-> "estimate_failed", doc |-> d]]
          /\ sent' = <<>>
          /\ delivery' = <<>>
  /\ sheet' = setup_headers(sheet, FALSE)
  /\ UNCHANGED <<trackerVars, webhooks, pc, run, nruns, prev, ex>>

\* ReadingDigest.estimate_task
EstimateTask(d, o) ==
  /\ pc = "idle"
  /\ IF DocParses(d)
     THEN LET tokens == estimate_tokens(DocText(d), encoder)
              msg == [kind |-> "estimate", doc |-> d, tokens |-> tokens,
                      budget |-> max_budget, within |-> tokens < max_budget]
          IN  /\ est' = [tokens |-> tokens, message |-> msg]
              /\ sent' = <<Sent("token", msg)>>
              /\ delivery' = <<o>>
     ELSE /\ est' = [tokens |-> 0, message |-> [kind |-> "estimate_failed", doc |-> d]]
          /\ sent' = <<>>
          /\ delivery' = <<>>
  /\ UNCHANGED <<trackerVars, sheet, webhooks, pc, run, nruns, prev, ex>>

Init ==
  /\ InitTrackerAt(RunBudgets, {<<4, 5>>})
  /\ sheet \in InitialSheets
  /\ webhooks \in {[results |-> FALSE, token |-> FALSE], [results |-> TRUE, token |-> TRUE]}
  /\ InitRunIdle
  /\ ex = ExIdle

Next ==
  \/ \E d \in Docs, kws \in KeywordLists, o \in SendOutcomes(webhooks, "results") :
       StartRun(d, kws, o)
  \/ \E o \in SendOutcomes(webhooks, "results") : Parse(o)
  \/ \E o \in SendOutcomes(webhooks, "token") : BudgetCheck(o)
  \/ \E o \in SendOutcomes(webhooks, "results") : Extract(o)
  \/ \E hdrError, lookupError, appendError \in BOOLEAN :
       Write(hdrError, lookupError, appendError)
  \/ \E o1 \in SendOutcomes(webhooks, "results"), o2 \in SendOutcomes(webhooks, "token") :
       Report(o1, o2)
  \/ Return
  \/ \E d \in Docs, o \in SendOutcomes(webhooks, "token") : EstimateTask(d, o)

Spec == Init /\ [][Next]_vars

(***************************************************************************)
(* The tracker on its own: any sequence of add_usage and get_status calls. *)
(***************************************************************************)
TrackerAddUsage(cost) ==
  /\ tokens_used + cost <= MaxUsed
  /\ LET r == add_usage(tokens_used, max_budget, warning_threshold, cost)
     IN  /\ tokens_used' = r.tokens_used
         /\ last' = [op |-> "add_usage", cost |-> cost, raised |-> r.raised,
                     ok |-> r.ok, message |-> r.message]
  /\ costSum' = costSum + cost
  /\ UNCHANGED <<max_budget, warning_threshold, encoder, runVars, ex>>

TrackerGetStatus ==
  /\ LET status == get_status(tokens_used, max_budget)
     IN  last' = [op |-> "get_status", cost |-> 0, raised |-> status.raised,
                  ok |-> TRUE, message |-> status.message]
  /\ UNCHANGED <<max_budget, warning_threshold, tokens_used, encoder, costSum,
                 runVars, ex>>

InitTracker ==
  /\ InitTrackerAt(TrackerBudgets, WarningThresholds)
  /\ sheet = <<>>
  /\ webhooks = [results |-> FALSE, token |-> FALSE]
  /\ InitRunIdle
  /\ ex = ExIdle

NextTracker ==
  \/ \E cost \in 0..MaxCost : TrackerAddUsage(cost)
  \/ TrackerGetStatus

SpecTracker == InitTracker /\ [][NextTracker]_vars

(***************************************************************************)
(* The extractor on its own: extract is stepped one loop iteration at a    *)
(* time, and called again on the same ContentExtractor object.             *)
(***************************************************************************)
ExtractAlphabet == {"a", ".", "?", " "}

\* "The cat sat. The cat ran."
CatText ==
  <<"T", "h", "e", " ", "c", "a", "t", " ", "s", "a", "t", ".", " ",
    "T", "h", "e", " ", "c", "a", "t", " ", "r", "a", "n", ".">>

ExtractTexts ==
  UNION {[1..n -> ExtractAlphabet] : n \in 0..MaxTextLen}
    \cup {CatText, <<"A", " ", "a">>, <<"I_DOT", "I_DOT", "a">>}

ExtractKeywordLists ==
  {<<>>, <<<<>>>>, <<<<"a">>>>, <<<<"A">>, <<"a", "a">>>>, <<Cat>>}

ContextWidths == {0, 1, 5}

ExtractLoop ==
  /\ ex.st.calls > 0
  /\ ~ex.st.done
  /\ ex' = [ex EXCEPT !.st = ExtractIter(ex.st, ex.text, InitKeywords(ex.keywords), ex.W)]
  /\ UNCHANGED <<trackerVars, runVars>>

\* extract is called again with the same text on the same object.
ExtractAgain ==
  /\ ex.st.done
  /\ ex.st.calls < MaxCalls
  /\ ex' = [ex EXCEPT !.st = ExtractStart(ex.st.calls + 1), !.first = ex.st.results]
  /\ UNCHANGED <<trackerVars, runVars>>

InitExtract ==
  /\ InitTrackerAt({250}, {<<4, 5>>})
  /\ encoder = FALSE
  /\ sheet = <<>>
  /\ webhooks = [results |-> FALSE, token |-> FALSE]
  /\ InitRunIdle
  /\ \E text \in ExtractTexts, kws \in ExtractKeywordLists, W \in ContextWidths :
       ex = [text |-> text, keywords |-> kws, W |-> W, st |-> ExtractStart(1),
             first |-> <<>>]

NextExtract ==
  \/ ExtractLoop
  \/ ExtractAgain

SpecExtract == InitExtract /\ [][NextExtract]_vars

\* The loop condition of a running call: ExtractLoop can be taken, and every
\* ExtractLoop step changes the state.
LoopEnabled == ex.st.calls > 0 /\ ~ex.st.done

\* The interpreter keeps executing the while loop of a running call: an
\* iteration that can be taken is taken.  This is WF_vars(ExtractLoop) with
\* ENABLED <<ExtractLoop>>_vars written out as the loop condition.
FairLoop == []<>(~LoopEnabled) \/ []<><<ExtractLoop>>_vars

SpecExtractFair == InitExtract /\ [][NextExtract]_vars /\ FairLoop

(***************************************************************************)
(* Properties                                                              *)
(***************************************************************************)
\* C1: under any sequence of add_usage calls with non-negative costs,
\* tokens_used never decreases and always equals the sum of the costs passed
\* so far, whatever the calls returned.
C1_BudgetMonotone ==
  /\ [](tokens_used = costSum)
  /\ [][tokens_used' >= tokens_used]_vars

\* A refused call with a positive cost has been recorded.
C1_Witness ==
  /\ last.op = "add_usage"
  /\ last.cost > 0
  /\ ~last.ok
  /\ ~last.raised
  /\ tokens_used > max_budget
  /\ max_budget > 0

\* C2: once add_usage has refused the cost in process_document, the call is
\* ABORTED with the exceeded message as its result, extract has not run, no
\* store call was made and the sheet is as at the start, and the cost is in
\* tokens_used.
C2_AbortOnExceeded ==
  run.permitted = "no" =>
    /\ pc = "ABORTED"
    /\ ~run.result.success
    /\ run.result.message.kind = "exceeded"
    /\ run.result.message = last.message
    /\ ~run.extracted
    /\ run.entries = <<>>
    /\ run.storeCalls = 0
    /\ sheet = run.sheet0
    /\ tokens_used = run.used0 + run.tokens

\* The cost of the first document equals the ceiling: ratio exactly 1.0.
C2_Witness ==
  /\ run.permitted = "no"
  /\ pc = "ABORTED"
  /\ run.used0 = 0
  /\ run.tokens = max_budget

\* The record rows of a sheet, in order.
DataRows(sh) == SelectSeq(sh, LAMBDA row : row # HeaderRow)

\* C3: a second process_document call in succession with the same document
\* and keywords, with lookups and appends succeeding in both calls, appends
\* nothing and leaves the record rows of the sheet as it found them.
C3_SecondRunAddsNothing ==
  ( /\ pc \in Terminal
    /\ prev.doc # 0
    /\ prev.doc = run.doc
    /\ prev.keywords = run.keywords
    /\ ~prev.lookupFailed /\ ~prev.appendFailed
    /\ ~run.lookupFailed /\ ~run.appendFailed )
  => /\ run.result.entries_added = 0
     /\ DataRows(sheet) = DataRows(run.sheet0)

\* C4: with a ceiling of zero or less, add_usage with a positive cost does
\* not raise, records the cost and refuses it, and get_status does not raise.
C4_NonPositiveCeiling ==
  max_budget <= 0 =>
    /\ (last.op = "add_usage" /\ last.cost > 0) =>
          (~last.raised /\ ~last.ok /\ tokens_used = costSum)
    /\ last.op = "get_status" => ~last.raised

\* C5: for a positive ceiling add_usage classifies the usage after the
\* addition: refused with an exceeded message from the ceiling on, permitted
\* with a warning from the warning fraction on, else permitted with an empty
\* message.
C5_Classification ==
  (max_budget > 0 /\ last.op = "add_usage") =>
    /\ ~last.raised
    /\ tokens_used >= max_budget =>
         (~last.ok /\ last.message.kind = "exceeded")
    /\ (tokens_used < max_budget
        /\ tokens_used * warning_threshold[2] >= warning_threshold[1] * max_budget) =>
         (last.ok /\ last.message.kind = "warning")
    /\ (tokens_used < max_budget
        /\ tokens_used * warning_threshold[2] < warning_threshold[1] * max_budget) =>
         (last.ok /\ last.message = EmptyMsg)

\* The usage reaches the ceiling exactly and the call is refused.
C5_Witness ==
  /\ max_budget > 0
  /\ last.op = "add_usage"
  /\ last.cost > 0
  /\ tokens_used = max_budget
  /\ ~last.ok

\* C6: when the document does not parse, the call is ABORTED with the
\* parse-failure message; tokens_used and the sheet are as at the start,
\* add_usage and extract have not run, no store call was made, and only the
\* start and the failure notifications were sent.
C6_ParseFailureNoEffect ==
  (run.doc # 0 /\ ~DocParses(run.doc) /\ pc # "START") =>
    /\ pc = "ABORTED"
    /\ ~run.result.success
    /\ run.result.message.kind = "parse_failed"
    /\ run.permitted = "n/a"
    /\ tokens_used = run.used0
    /\ sheet = run.sheet0
    /\ ~run.extracted
    /\ run.storeCalls = 0
    /\ \A i \in 1..Len(sent) : sent[i].message.kind \in {"start", "parse_failed"}

\* A call on an unparseable document has ended, after an earlier call charged
\* the budget.
C6_Witness ==
  /\ pc = "ABORTED"
  /\ ~DocParses(run.doc)
  /\ run.used0 > 0
  /\ Len(sheet) > 1

\* C7: on "The cat sat. The cat ran." with keyword cat and half-width 5,
\* extract returns two records, with contents "cat sat." and "cat ran." and
\* distinct fingerprints.
C7_CatScenario ==
  (ex.text = CatText /\ ex.keywords = <<Cat>> /\ ex.W = 5 /\ ex.st.done) =>
    /\ Len(ex.st.results) = 2
    /\ ex.st.results[1].Content = <<"c", "a", "t", " ", "s", "a", "t", ".">>
    /\ ex.st.results[2].Content = <<"c", "a", "t", " ", "r", "a", "n", ".">>
    /\ ex.st.results[1].UniqueID # ex.st.results[2].UniqueID

\* C8: within one extract call no two records share a unique_id, every
\* processed occurrence is represented by exactly one record with its
\* fingerprint, and a second call on the same object returns what the first
\* returned: nothing seen in the first call suppresses a record.
C8_PassLocalDedup ==
  LET results == ex.st.results
  IN  /\ \A i, j \in 1..Len(results) :
           i # j => results[i].UniqueID # results[j].UniqueID
      /\ ex.st.matched =>
           Cardinality({i \in 1..Len(results) :
                          results[i].UniqueID = content_hash(ex.st.content)}) = 1
      /\ (ex.st.calls >= 2 /\ ex.st.done) => results = ex.first

\* In a second call an occurrence is suppressed by a record of that call.
C8_Witness ==
  /\ ex.st.calls = 2
  /\ ex.st.matched
  /\ ~ex.st.emitted
  /\ Len(ex.st.results) >= 1
  /\ Len(ex.first) >= 2

\* The summary of a completed call in which every found record was already
\* stored: nothing added, at the same found count and budget status.
AllPresentSummary ==
  SummaryMessage(Len(run.entries), 0, get_status(tokens_used, max_budget).message)

\* C9: a call whose append failed still reaches REPORTED with entries_added
\* = 0, and its summary differs from the summary of a call in which every
\* found record was already stored.
C9_AppendFailureVisible ==
  (pc = "REPORTED" /\ run.appendFailed) =>
    /\ run.result.success
    /\ run.result.entries_added = 0
    /\ run.result.message # AllPresentSummary

\* The unique_ids held by the data rows of a sheet.
StoredIDs(sh) == {sh[i].UniqueID : i \in 1..Len(sh)} \ {HeaderID}

\* C10: in a completed call, the rows appended are exactly the found records
\* whose unique_id the store did not hold, entries_added is their number,
\* and the duplicates-skipped figure is the number of found records whose
\* unique_id the store held.
C10_DuplicatesCounted ==
  pc = "REPORTED" =>
    LET held == {i \in 1..Len(run.entries) :
                   run.entries[i].UniqueID \in StoredIDs(run.sheet0)}
    IN  /\ run.result.message.skipped = Cardinality(held)
        /\ run.result.entries_added = Len(run.entries) - Cardinality(held)
        /\ Len(sheet) >= run.result.entries_added
        /\ SubSeq(sheet, Len(sheet) - run.result.entries_added + 1, Len(sheet))
             = NewRows(run.entries, StoredIDs(run.sheet0))

(***************************************************************************)
(* C11: every process_document call that has ended, however it ended,      *)
(* returned a result whose message is not empty, and that message was      *)
(* handed to the alerter exactly once during the call.                     *)
(***************************************************************************)
TimesSent(message) == Cardinality({i \in DOMAIN sent : sent[i].message = message})

C11_OneSummaryMessage ==
  pc \in Terminal =>
    /\ run.result.message # EmptyMsg
    /\ TimesSent(run.result.message) = 1

\* The same statement for the calls that return a result.
C11_ReturnedCalls ==
  pc \in {"REPORTED", "ABORTED"} =>
    /\ run.result.message # EmptyMsg
    /\ TimesSent(run.result.message) = 1

(***************************************************************************)
(* C12: the outcome of a process_document call does not depend on whether  *)
(* its notifications were delivered.  The returned result, the counter and *)
(* the sheet are the values computed below from the inputs of the call and *)
(* the failures of the store alone, and the only exception that ends a     *)
(* call is the one add_usage raises.                                       *)
(***************************************************************************)
\* What extract returns for each document and keyword list a call can be given;
\* it depends on nothing else.
ExtractedFrom ==
  [d \in Docs |-> [kws \in KeywordLists |-> extract(DocText(d), kws, DefaultContextChars)]]

ExpectedEntries == ExtractedFrom[run.doc][run.keywords]

ExpectedResult(entries) ==
  IF ~DocParses(run.doc)
  THEN [Result0 EXCEPT !.message = [kind |-> "parse_failed", doc |-> run.doc]]
  ELSE
    LET tokens == estimate_tokens(DocText(run.doc), encoder)
        r == add_usage(run.used0, max_budget, warning_threshold, tokens)
    IN  IF ~r.ok
        THEN [Result0 EXCEPT !.tokens_used = tokens, !.message = r.message]
        ELSE
          LET w == append_rows(setup_headers(run.sheet0, FALSE), entries,
                               run.lookupFailed, run.appendFailed)
          IN  [success |-> TRUE, entries_found |-> Len(entries),
               entries_added |-> w.added, tokens_used |-> tokens,
               message |-> SummaryMessage(Len(entries), w.added,
                                          get_status(r.tokens_used, max_budget).message)]

ExpectedUsed ==
  IF DocParses(run.doc)
  THEN run.used0 + estimate_tokens(DocText(run.doc), encoder)
  ELSE run.used0

ExpectedSheet(entries, hdrError) ==
  append_rows(setup_headers(run.sheet0, hdrError), entries,
              run.lookupFailed, run.appendFailed).sheet

C12_SendFailureNoEffect ==
  /\ pc = "CRASHED" => last.op = "add_usage" /\ last.raised
  /\ pc = "ABORTED" =>
       /\ run.result = ExpectedResult(<<>>)
       /\ tokens_used = ExpectedUsed
       /\ sheet = run.sheet0
  /\ pc = "REPORTED" =>
       /\ run.entries = ExpectedEntries
       /\ run.result = ExpectedResult(run.entries)
       /\ tokens_used = ExpectedUsed
       /\ \E hdrError \in BOOLEAN : sheet = ExpectedSheet(run.entries, hdrError)

\* A call that added records although every one of its sends failed.
C12_Witness ==
  /\ pc = "REPORTED"
  /\ run.result.entries_added > 0
  /\ Len(sent) >= 4
  /\ delivery = <<"failed", "failed">>

(***************************************************************************)
(* C13: for every occurrence processed, the bounds of the context window   *)
(* are max(0, pos - W) and min(len(text), pos + len(keyword) + W), and     *)
(* they satisfy 0 <= start <= end <= len(text).                            *)
(***************************************************************************)
C13_WindowBounds ==
  ex.st.matched =>
    LET keyword == InitKeywords(ex.keywords)[ex.st.kwi]
    IN  /\ ex.st.ctx_start = Max2(0, ex.st.pos - ex.W)
        /\ ex.st.ctx_end = Min2(Len(ex.text), ex.st.pos + Len(keyword) + ex.W)
        /\ 0 <= ex.st.ctx_start
        /\ ex.st.ctx_start <= ex.st.ctx_end
        /\ ex.st.ctx_end <= Len(ex.text)

\* The same statement for the texts whose lowercase form has their length.
C13_SameLengthTexts ==
  (ex.st.matched /\ Len(Lower(ex.text)) = Len(ex.text)) =>
    /\ 0 <= ex.st.ctx_start
    /\ ex.st.ctx_start <= ex.st.ctx_end
    /\ ex.st.ctx_end <= Len(ex.text)

(***************************************************************************)
(* C14: with a positive ceiling, add_usage(0) leaves tokens_used unchanged *)
(* and returns permitted = true with an empty message, whether the tracker *)
(* is below the warning threshold, in the warning range or exceeded.       *)
(***************************************************************************)
C14_ZeroCostNoOp ==
  [][(max_budget > 0 /\ last'.op = "add_usage" /\ last'.cost = 0) =>
        /\ tokens_used' = tokens_used
        /\ ~last'.raised
        /\ last'.ok
        /\ last'.message = EmptyMsg]_vars

\* The part of the statement about the counter and the absence of an error.
C14_ZeroCostKeepsCounter ==
  [][(max_budget > 0 /\ last'.op = "add_usage" /\ last'.cost = 0) =>
        /\ tokens_used' = tokens_used
        /\ ~last'.raised
        /\ last'.ok = ~RatioGe(tokens_used, max_budget, 1, 1)]_vars

(***************************************************************************)
(* C15: when the lookup of the existing IDs fails, append_rows takes every *)
(* record it was given as new and tries to append them all (the rows land  *)
(* at the end of the sheet in order unless the append fails too), and the  *)
(* call is not aborted: it goes on to the report.                          *)
(***************************************************************************)
EntryRows(entries) == [i \in 1..Len(entries) |-> RowOf(entries[i])]

C15_LookupFailureAppendsAll ==
  run.lookupFailed =>
    /\ pc \in {"WRITTEN", "REPORTED"}
    /\ pc = "REPORTED" => run.result.success
    /\ run.entries = <<>> => run.result.entries_added = 0 /\ ~run.appendFailed
    /\ run.entries # <<>> =>
         \/ /\ run.appendFailed
            /\ run.result.entries_added = 0
            /\ \E hdrError \in BOOLEAN : sheet = setup_headers(run.sheet0, hdrError)
         \/ /\ ~run.appendFailed
            /\ run.result.entries_added = Len(run.entries)
            /\ \E hdrError \in BOOLEAN :
                 sheet = setup_headers(run.sheet0, hdrError) \o EntryRows(run.entries)

\* A record already stored was appended again after a failed lookup.
C15_Witness ==
  /\ pc = "REPORTED"
  /\ run.lookupFailed
  /\ run.result.entries_added = Len(run.entries)
  /\ \E i \in 1..Len(run.entries) : run.entries[i].UniqueID \in StoredIDs(run.sheet0)

(***************************************************************************)
(* C16: estimate_task parses the document, estimates its tokens and        *)
(* reports the estimate; it runs no extraction, charges nothing to the     *)
(* budget and leaves the sheet as it was.                                  *)
(***************************************************************************)
C16_EstimateOnly ==
  [][(pc = "idle" /\ pc' = "idle") =>
        /\ sheet' = sheet
        /\ run' = run
        /\ ~run'.extracted
        /\ tokens_used' = tokens_used
        /\ last' = last
        /\ IF DocParses(est'.message.doc)
           THEN /\ est'.message.kind = "estimate"
                /\ est'.tokens = estimate_tokens(DocText(est'.message.doc), encoder)
                /\ est'.message.tokens = est'.tokens
                /\ sent' = <<Sent("token", est'.message)>>
           ELSE /\ est'.message.kind = "estimate_failed"
                /\ est'.tokens = 0
                /\ sent' = <<>>]_vars

\* An estimate was reported between two calls, over a sheet that holds records.
C16_Witness ==
  /\ pc = "idle"
  /\ est.message.kind = "estimate"
  /\ est.tokens > 0
  /\ sent = <<Sent("token", est.message)>>
  /\ nruns > 0
  /\ Len(sheet) > 1

(***************************************************************************)
(* C17: for a whitespace-collapsed window that does not begin with a       *)
(* sentence-boundary mark, _clean_content drops everything up to and       *)
(* including the EARLIEST mark among the first 50 characters (the smallest *)
(* index over all marks), and returns the window as it is when none of     *)
(* the first 50 characters is a mark.                                      *)
(***************************************************************************)
\* The 0-based indexes below BoundarySpan at which c holds a mark.
MarkIndexes(c) ==
  {i \in 0..(Min2(Len(c), BoundarySpan) - 1) : c[i + 1] \in MarkSet}

TrimAtEarliestMark(c) ==
  LET idxs == MarkIndexes(c)
  IN  IF idxs = {} THEN c
      ELSE LET idx == CHOOSE i \in idxs : \A j \in idxs : i <= j
           IN  Strip(Slice(c, idx + 1, Len(c)))

C17_EarliestMark ==
  ex.st.matched =>
    LET c == Strip(CollapseWs(ex.st.window))
    IN  (c # <<>> /\ c[1] \notin MarkSet) => ex.st.content = TrimAtEarliestMark(c)

\* The part of the statement about windows with at most one kind of mark
\* among their first 50 characters.
C17_OneKindOfMark ==
  ex.st.matched =>
    LET c == Strip(CollapseWs(ex.st.window))
    IN  (/\ c # <<>>
         /\ c[1] \notin MarkSet
         /\ Cardinality({c[i + 1] : i \in MarkIndexes(c)}) <= 1)
          => ex.st.content = TrimAtEarliestMark(c)

(***************************************************************************)
(* C18 as stated: within the scan of one keyword, the positions processed  *)
(* increase strictly and two processed matches start at least len(keyword) *)
(* characters apart, so that processed occurrences never overlap.          *)
(***************************************************************************)
\* Two consecutive iterations of the while loop that processed a match of the
\* same keyword in the same call.
SameScan ==
  /\ ex.st.matched
  /\ ex'.st.matched
  /\ ex'.st.kwi = ex.st.kwi
  /\ ex'.st.calls = ex.st.calls

ScanKeyword == InitKeywords(ex.keywords)[ex.st.kwi]

\* The keyword of the current scan occurs at the 0-based position q of text_lower.
Occurs(q) ==
  /\ q >= 0
  /\ q + Len(ScanKeyword) <= Len(Lower(ex.text))
  /\ Slice(Lower(ex.text), q, q + Len(ScanKeyword)) = ScanKeyword

C18_NonOverlapping ==
  [][SameScan =>
        /\ ex'.st.pos > ex.st.pos
        /\ ex'.st.pos >= ex.st.pos + Len(ScanKeyword)]_vars

\* C18, amended: within the scan of one keyword every occurrence is
\* processed from left to right, the overlapping ones too: the positions
\* increase strictly (by at least 1), and each processed match is the next
\* occurrence after the start of the match before it.
C18_EveryOccurrenceLeftToRight ==
  [][SameScan =>
        /\ ex'.st.pos >= ex.st.pos + 1
        /\ Occurs(ex'.st.pos)
        /\ \A q \in (ex.st.pos + 1)..(ex'.st.pos - 1) : ~Occurs(q)]_vars

\* A processed match that overlaps the occurrence one character before it.
C18_Witness ==
  /\ ex.st.matched
  /\ Len(ScanKeyword) >= 2
  /\ ex.st.pos >= 1
  /\ Occurs(ex.st.pos - 1)
  /\ Occurs(ex.st.pos)

(***************************************************************************)
(* C19: the cleaned content of every record returned contains the keyword  *)
(* of the record, compared case-insensitively; so the content of a record  *)
(* with a non-empty keyword is never empty.  Stated for the texts whose     *)
(* lowercase form keeps their length, where the window does surround the   *)
(* occurrence (C13).                                                       *)
(***************************************************************************)
ContainsKeyword(entry) ==
  /\ Find(Lower(entry.Content), entry.Tags, 0) # -1
  /\ entry.Tags # <<>> => entry.Content # <<>>

C19_ContentHoldsKeyword ==
  Len(Lower(ex.text)) = Len(ex.text) =>
    \A i \in 1..Len(ex.st.results) : ContainsKeyword(ex.st.results[i])

(***************************************************************************)
(* C20: every call of extract returns, also for the empty text, the empty  *)
(* keyword list and the empty-string keyword; within the scan of one       *)
(* keyword the search start increases strictly with each iteration; and    *)
(* the result is empty for the empty keyword list, and for the empty text  *)
(* when no keyword is the empty string.                                    *)
(***************************************************************************)
\* An iteration of the while loop that stays in the scan of the same keyword.
SameScanIteration ==
  /\ ex.st.calls > 0
  /\ ~ex'.st.done
  /\ ex'.st.kwi = ex.st.kwi
  /\ ex'.st.calls = ex.st.calls

NoEmptyKeyword == \A k \in 1..Len(ex.keywords) : ex.keywords[k] # <<>>

C20_ExtractTerminates ==
  /\ LoopEnabled ~> ex.st.done
  /\ [][SameScanIteration => ex'.st.start > ex.st.start]_vars
  /\ []((ex.st.done /\ (ex.keywords = <<>> \/ (ex.text = <<>> /\ NoEmptyKeyword)))
          => ex.st.results = <<>>)

\* A call with the empty-string keyword on a text of three or more characters
\* has returned a record.
C20_Witness ==
  /\ ex.st.done
  /\ ex.keywords = <<<<>>>>
  /\ Len(ex.text) >= 3
  /\ Len(ex.st.results) >= 1

(***************************************************************************)
(* C21: with a positive ceiling, a process_document call that starts with  *)
(* tokens_used >= max_budget and whose document parses ends ABORTED at the *)
(* budget check: it runs no extraction and makes no store call, and it     *)
(* still adds its estimated cost to tokens_used.  No step lowers           *)
(* tokens_used, so the calls after it start exhausted too.                 *)
(***************************************************************************)
\* The running call started with the budget used up.
StartedExhausted ==
  /\ pc # "idle"
  /\ max_budget > 0
  /\ run.used0 >= max_budget
  /\ DocParses(run.doc)

C21_ExhaustionAbsorbing ==
  /\ [](StartedExhausted =>
          /\ pc \in {"START", "PARSED", "ABORTED"}
          /\ ~run.extracted
          /\ run.entries = <<>>
          /\ run.storeCalls = 0
          /\ sheet = run.sheet0
          /\ pc = "ABORTED" =>
               /\ run.permitted = "no"
               /\ ~run.result.success
               /\ tokens_used =
                    run.used0 + estimate_tokens(DocText(run.doc), encoder))
  /\ [][tokens_used' >= tokens_used]_vars

\* A call that started exhausted was refused and its positive cost recorded.
C21_Witness ==
  /\ StartedExhausted
  /\ pc = "ABORTED"
  /\ run.tokens > 0
  /\ tokens_used > run.used0

(***************************************************************************)
(* C22: starting from a sheet without two rows of the same unique_id, as   *)
(* long as every lookup of the existing IDs has succeeded, the sheet holds *)
(* no two rows with the same unique_id, and the rows a call found in the   *)
(* sheet are still there, unaltered and in place.  Stated for the first    *)
(* two calls of an instance, whose lookups prev and run record.            *)
(***************************************************************************)
NoDuplicateIDs(sh) ==
  \A i, j \in 1..Len(sh) : i # j => sh[i].UniqueID # sh[j].UniqueID

\* Every row of old is the row of new at the same place.
RowsKept(old, new) ==
  /\ Len(old) <= Len(new)
  /\ \A i \in 1..Len(old) : new[i] = old[i]

C22_StoreUniqueness ==
  (pc # "idle" /\ nruns <= 2 /\ ~prev.lookupFailed /\ ~run.lookupFailed) =>
     /\ NoDuplicateIDs(sheet)
     /\ RowsKept(run.sheet0, sheet)

\* The same statement for a call that finds the sheet empty or with the
\* header row in its first row.
C22_SheetWithHeaderRow ==
  ( /\ pc # "idle"
    /\ ~run.lookupFailed
    /\ NoDuplicateIDs(run.sheet0)
    /\ run.sheet0 # <<>> => run.sheet0[1] = HeaderRow ) =>
     /\ NoDuplicateIDs(sheet)
     /\ RowsKept(run.sheet0, sheet)

====
